---- MODULE Spec2Model ----
(***************************************************************************)
(* Model of cloud/amazon/transcoder_preset.py: the Ansible module that     *)
(* creates, recreates or deletes an AWS ElasticTranscoder preset located   *)
(* by its (non-unique) name.  One invocation of the module is a run of     *)
(* main(): it dispatches to create_preset or delete_preset, which read the *)
(* remote catalog page by page and then issue delete / create calls.       *)
(***************************************************************************)
EXTENDS Integers, Sequences, FiniteSets, TLC

\* ---------------------------------------------------------------- bounds
MaxId == 3          \* ids the remote service hands out in one behaviour
MaxInit == 2        \* presets in the catalog before the first invocation
MaxPageSize == 2    \* entries the service puts on one list_presets page

\* ------------------------------------------------------- python values
None == "None"
EmptyStr == ""
NoKey == "<no key>"            \* a dict key that was never assigned
EmptyDict == <<>>
EmptyBlock == <<>>             \* a JSON object with no members: len() = 0
FullBlock == <<"settings">>    \* a JSON object with members:    len() > 0

IdStr == <<"id1", "id2", "id3", "id4", "id5", "id6", "id7", "id8">>
ArnStr == <<"arn:preset/id1", "arn:preset/id2", "arn:preset/id3",
            "arn:preset/id4", "arn:preset/id5", "arn:preset/id6",
            "arn:preset/id7", "arn:preset/id8">>

\* A preset as list_presets / create_preset report it.
Preset(k, name) == [Id |-> IdStr[k], Name |-> name, Arn |-> ArnStr[k]]

\* Names are compared exactly: "N" is not "n".
CatalogNames == {"n", "N", "m"}

\* ------------------------------------------------------ module.params
BlockKeys == {"Video", "Audio", "Thumbnails"}

\* The JSON documents json.load can return: any subset of the three
\* blocks, each either empty or populated.
Templates == UNION {[ks -> {EmptyBlock, FullBlock}] : ks \in SUBSET BlockKeys}

\* preset_document: not given, or a path whose file is missing, unreadable,
\* not JSON, or holds one of the templates.
Documents ==
    {[file |-> f, json |-> EmptyDict] : f \in {"none", "nofile", "ioerror", "badjson"}}
    \cup {[file |-> "ok", json |-> t] : t \in Templates}

Params ==
    [name : {EmptyStr, "n"},
     description : {None, "d"},
     state : {"present", "absent"},
     recreate : BOOLEAN,
     container : {None, "mp4"},
     preset_document : Documents]

VideoOnly == [file |-> "ok", json |-> ("Video" :> FullBlock)]
AudioOnly == [file |-> "ok", json |-> ("Audio" :> FullBlock)]
NoDocument == [file |-> "none", json |-> EmptyDict]

\* The descriptors of the two-invocation runs.
PairParams ==
    [name : {"n"},
     description : {None},
     state : {"present", "absent"},
     recreate : BOOLEAN,
     container : {"mp4"},
     preset_document : {VideoOnly, AudioOnly}]

VARIABLES
    catalog,        \* the service's presets, in list_presets (ascending) order
    nextId,         \* index of the id the service assigns to the next preset
    module_params,  \* module.params of the running / last invocation
    check_mode,     \* module.check_mode
    pageSize,       \* entries per list_presets page during this invocation
    pc,             \* position of the invocation
    PresetId,       \* local of create_preset / delete_preset
    PresetArn,      \* local of create_preset / delete_preset
    params,         \* the params dict create_preset builds for the create call
    result,         \* the result dict
    outcome,        \* "none", "running", "success", "failed" (fail_json), "crashed"
    fail_msg,       \* msg of fail_json, or the uncaught exception
    calls,          \* remote calls issued by this invocation, in order
    catalog0,       \* the catalog when this invocation started
    prev            \* the invocation before this one (two-invocation runs)

vars == <<catalog, nextId, module_params, check_mode, pageSize, pc, PresetId,
          PresetArn, params, result, outcome, fail_msg, calls, catalog0, prev>>

\* ------------------------------------------------------------- helpers
RECURSIVE InitialCatalogs(_)
InitialCatalogs(k) ==
    IF k = 0 THEN {<<>>}
    ELSE {Append(c, Preset(k, nm)) : c \in InitialCatalogs(k - 1), nm \in CatalogNames}

NoRun == [ran |-> FALSE]

DefaultParams ==
    [name |-> "n", description |-> None, state |-> "present",
     recreate |-> FALSE, container |-> None, preset_document |-> NoDocument]

EmptyResult == [name |-> EmptyStr, id |-> EmptyStr, arn |-> EmptyStr,
                msg |-> EmptyStr, changed |-> NoKey]

Init ==
    /\ \E k \in 0..MaxInit : catalog \in InitialCatalogs(k) /\ nextId = k + 1
    /\ module_params = DefaultParams
    /\ check_mode = FALSE
    /\ pageSize = 1
    /\ pc = "idle"
    /\ PresetId = None
    /\ PresetArn = None
    /\ params = EmptyDict
    /\ result = EmptyResult
    /\ outcome = "none"
    /\ fail_msg = EmptyStr
    /\ calls = <<>>
    /\ catalog0 = catalog
    /\ prev = NoRun

\* ------------------------------------------------------- get_preset_id
Min(a, b) == IF a < b THEN a ELSE b

\* The k-th page of the listing and the number of pages: the last page is
\* the one that carries no NextPageToken.
PageOf(cat, ps, k) == SubSeq(cat, (k - 1) * ps + 1, Min(k * ps, Len(cat)))
NumPages(cat, ps) == IF Len(cat) = 0 THEN 1 ELSE (Len(cat) + ps - 1) \div ps

\* for preset in page['Presets']: index of the first entry whose Name is
\* preset_name, 0 when the loop runs to its end.
RECURSIVE FirstMatch(_, _, _)
FirstMatch(page, preset_name, i) ==
    IF i > Len(page) THEN 0
    ELSE IF page[i].Name = preset_name THEN i
    ELSE FirstMatch(page, preset_name, i + 1)

\* WalkPages leaving the loop after the first page, whatever its token.
WalkFirstPage(cat, ps, preset_name, k) ==
    LET page == PageOf(cat, ps, k)
        hit == FirstMatch(page, preset_name, 1)
    IN  IF hit # 0
        THEN [Id |-> page[hit].Id, Arn |-> page[hit].Arn, reads |-> k]
        ELSE [Id |-> None, Arn |-> None, reads |-> k]

\* for page in page_iterator: returns (Id, Arn) and the pages read.
RECURSIVE WalkPages(_, _, _, _)
WalkPages(cat, ps, preset_name, k) ==
    LET page == PageOf(cat, ps, k)
        hit == FirstMatch(page, preset_name, 1)
    IN  IF hit # 0
        THEN [Id |-> page[hit].Id, Arn |-> page[hit].Arn, reads |-> k]
        ELSE IF k >= NumPages(cat, ps)
        THEN [Id |-> None, Arn |-> None, reads |-> k]
        ELSE WalkPages(cat, ps, preset_name, k + 1)

get_preset_id(cat, ps, preset_name) == WalkPages(cat, ps, preset_name, 1)

ListCalls(n) == [i \in 1..n |-> [op |-> "list", arg |-> i]]

\* The service's delete_preset(Id=...): removes the entry with that id.
RECURSIVE RemoveId(_, _)
RemoveId(cat, id) ==
    IF cat = <<>> THEN <<>>
    ELSE IF Head(cat).Id = id THEN RemoveId(Tail(cat), id)
    ELSE <<Head(cat)>> \o RemoveId(Tail(cat), id)

\* ---------------------------------------------------------------- main
\* main(): parse the arguments (one of the descriptors, with or without
\* check mode) and dispatch on state.
main(descriptors) ==
    /\ pc = "idle"
    /\ nextId <= MaxId
    /\ \E p \in descriptors, cm \in BOOLEAN, ps \in 1..MaxPageSize :
          /\ module_params' = p
          /\ check_mode' = cm
          /\ pageSize' = ps
          /\ pc' = IF p.state = "present" THEN "create_preset" ELSE "delete_preset"
    /\ outcome' = "running"
    /\ catalog0' = catalog
    /\ UNCHANGED <<catalog, nextId, PresetId, PresetArn, params, result,
                   fail_msg, calls, prev>>

\* What a finished invocation leaves behind for the next one to be
\* compared with.
LastRun ==
    [ran |-> TRUE, module_params |-> module_params, check_mode |-> check_mode,
     outcome |-> outcome, fail_msg |-> fail_msg, result |-> result,
     calls |-> calls, catalog0 |-> catalog0]

\* The process ends (sys.exit in exit_json / fail_json, or the traceback):
\* nothing of the invocation survives but the remote catalog.
process_exit(track) ==
    /\ pc = "done"
    /\ pc' = "idle"
    /\ prev' = IF track THEN LastRun ELSE NoRun
    /\ module_params' = DefaultParams
    /\ check_mode' = FALSE
    /\ pageSize' = 1
    /\ PresetId' = None
    /\ PresetArn' = None
    /\ params' = EmptyDict
    /\ result' = EmptyResult
    /\ outcome' = "none"
    /\ fail_msg' = EmptyStr
    /\ calls' = <<>>
    /\ catalog0' = catalog
    /\ UNCHANGED <<catalog, nextId>>

\* module.fail_json(msg=...) or an uncaught exception: the process exits.
Exit(how, msg) ==
    /\ outcome' = how
    /\ fail_msg' = msg
    /\ pc' = "done"

\* A remote call that raises ClientError where the code has no handler in
\* reach (the listing), or whose handler itself raises (delete_preset_by_id
\* names a `module` that is not in its scope): the process dies with a
\* traceback.
Crash(msg) == Exit("crashed", msg)
fail_json(msg) == Exit("failed", msg)

\* module.exit_json(**results)
exit_json(r) ==
    /\ result' = r
    /\ outcome' = "success"
    /\ pc' = "done"
    /\ UNCHANGED fail_msg

\* The listing of get_preset_id as remote calls: it reads `reads` pages; the
\* f-th read is rejected when f > 0.
Lookup(f, found) ==
    IF f = 0
    THEN /\ PresetId' = found.Id
         /\ PresetArn' = found.Arn
         /\ calls' = calls \o ListCalls(found.reads)
         /\ UNCHANGED <<outcome, fail_msg>>
    ELSE /\ calls' = calls \o ListCalls(f)
         /\ Crash("ClientError")
         /\ UNCHANGED <<PresetId, PresetArn>>

\* ------------------------------------------------------- create_preset
\* lines 167-185: the name check and the lookup.
create_preset_locate ==
    /\ pc = "create_preset"
    /\ IF module_params.name = EmptyStr
       THEN /\ fail_json("Missing required argument: name")
            /\ UNCHANGED <<PresetId, PresetArn, params, calls>>
       ELSE LET found == get_preset_id(catalog, pageSize, module_params.name)
            IN  /\ params' = ("Name" :> module_params.name)
                /\ \E f \in 0..found.reads :
                      /\ Lookup(f, found)
                      /\ IF f = 0 THEN pc' = "located" ELSE TRUE
    /\ UNCHANGED <<catalog, nextId, module_params, check_mode, pageSize,
                   result, catalog0, prev>>

\* create_preset_exists with the result of the create branch: changed is set.
create_preset_exists_changed ==
    /\ pc = "located"
    /\ PresetId # None
    /\ ~ module_params.recreate
    /\ exit_json([result EXCEPT !.name = module_params.name,
                                !.id = PresetId,
                                !.arn = PresetArn,
                                !.msg = "Preset already exists",
                                !.changed = "true"])
    /\ UNCHANGED <<catalog, nextId, module_params, check_mode, pageSize,
                   PresetId, PresetArn, params, calls, catalog0, prev>>

\* create_preset_exists without its return: the code goes on to create.
create_preset_exists_falls_through ==
    /\ pc = "located"
    /\ PresetId # None
    /\ ~ module_params.recreate
    /\ pc' = "build"
    /\ result' = [result EXCEPT !.name = module_params.name,
                                !.id = PresetId,
                                !.arn = PresetArn,
                                !.msg = "Preset already exists"]
    /\ UNCHANGED <<catalog, nextId, module_params, check_mode, pageSize,
                   PresetId, PresetArn, params, calls, catalog0, prev,
                   outcome, fail_msg>>

\* lines 187-193: found and not recreate.
create_preset_exists ==
    /\ pc = "located"
    /\ PresetId # None
    /\ ~ module_params.recreate
    /\ exit_json([result EXCEPT !.name = module_params.name,
                                !.id = PresetId,
                                !.arn = PresetArn,
                                !.msg = "Preset already exists"])
    /\ UNCHANGED <<catalog, nextId, module_params, check_mode, pageSize,
                   PresetId, PresetArn, params, calls, catalog0, prev>>

\* delete_preset_by_id passing its preset_name argument as the Id.
delete_preset_by_name(preset_id, ok) ==
    /\ calls' = Append(calls, [op |-> "delete", arg |-> module_params.name])
    /\ IF ok
       THEN /\ catalog' = RemoveId(catalog, module_params.name)
            /\ pc' = "build"
            /\ UNCHANGED <<outcome, fail_msg>>
       ELSE /\ Crash("NameError: module")
            /\ UNCHANGED catalog

\* lines 157-162: client.delete_preset(Id=preset_id); the handler of a
\* rejected call refers to `module`, which is local to main().
delete_preset_by_id(preset_id, ok) ==
    /\ calls' = Append(calls, [op |-> "delete", arg |-> preset_id])
    /\ IF ok
       THEN /\ catalog' = RemoveId(catalog, preset_id)
            /\ pc' = "build"
            /\ UNCHANGED <<outcome, fail_msg>>
       ELSE /\ Crash("NameError: module")
            /\ UNCHANGED catalog

\* create_preset_recreate without the test of the recreate flag.
create_preset_recreate_unguarded ==
    /\ pc = "located"
    /\ PresetId # None
    /\ \E ok \in BOOLEAN : delete_preset_by_id(PresetId, ok)
    /\ UNCHANGED <<nextId, module_params, check_mode, pageSize, PresetId,
                   PresetArn, params, result, catalog0, prev>>

\* lines 195-197: found and recreate.
create_preset_recreate ==
    /\ pc = "located"
    /\ PresetId # None
    /\ module_params.recreate
    /\ \E ok \in BOOLEAN : delete_preset_by_id(PresetId, ok)
    /\ UNCHANGED <<nextId, module_params, check_mode, pageSize, PresetId,
                   PresetArn, params, result, catalog0, prev>>

\* lines 219-226: copy the blocks the template has into params.
WithBlocks(p, PresetTemplate) ==
    [k \in DOMAIN p \cup (DOMAIN PresetTemplate \cap BlockKeys) |->
        IF k \in DOMAIN p THEN p[k] ELSE PresetTemplate[k]]

\* lines 228-231: the `and` chain reads params['Video'], params['Audio'],
\* params['Thumbnails'] from left to right and stops at the first block
\* that is not empty; reading a key that was never set raises KeyError.
RECURSIVE SpecCheck(_, _)
SpecCheck(p, keys) ==
    IF keys = <<>> THEN "empty"
    ELSE IF Head(keys) \notin DOMAIN p THEN "KeyError"
    ELSE IF Len(p[Head(keys)]) # 0 THEN "ok"
    ELSE SpecCheck(p, Tail(keys))

\* lines 199-231: description, container, document, validation.
create_preset_build ==
    /\ \/ pc = "build"
       \/ pc = "located" /\ PresetId = None
    /\ LET doc == module_params.preset_document
           p1 == IF module_params.description # None
                 THEN [k \in DOMAIN params \cup {"Description"} |->
                         IF k = "Description" THEN module_params.description
                         ELSE params[k]]
                 ELSE params
           p2 == [k \in DOMAIN p1 \cup {"Container"} |->
                    IF k = "Container" THEN module_params.container ELSE p1[k]]
           PresetTemplate == IF doc.file = "ok" THEN doc.json ELSE EmptyDict
           p3 == WithBlocks(p2, PresetTemplate)
       IN  IF module_params.container = None
           THEN fail_json("Missing required argument: container") /\ params' = p1
           ELSE IF doc.file = "nofile"
           THEN fail_json("Wrong path for preset_document") /\ params' = p2
           ELSE IF doc.file = "ioerror"
           THEN fail_json("Can't open video_template file") /\ params' = p2
           ELSE IF doc.file = "badjson"
           THEN Crash("ValueError") /\ params' = p2
           ELSE /\ params' = p3
                /\ LET chk == SpecCheck(p3, <<"Video", "Audio", "Thumbnails">>)
                   IN  IF chk = "KeyError" THEN Crash("KeyError")
                       ELSE IF chk = "empty"
                       THEN fail_json("No specs provided for Video, Audio, or Thumbnails. ")
                       ELSE pc' = "create" /\ UNCHANGED <<outcome, fail_msg>>
    /\ UNCHANGED <<catalog, nextId, module_params, check_mode, pageSize,
                   PresetId, PresetArn, result, calls, catalog0, prev>>

\* create_preset_create reading a key the create response does not have:
\* the call went through, the process dies on the KeyError.
create_preset_create_bad_key ==
    /\ pc = "create"
    /\ IF check_mode
       THEN /\ exit_json([result EXCEPT !.msg = "Preset created successfully",
                                        !.changed = "true"])
            /\ UNCHANGED <<catalog, nextId, calls>>
       ELSE /\ calls' = Append(calls, [op |-> "create", arg |-> params])
            /\ \E ok \in BOOLEAN :
                 IF ok
                 THEN /\ catalog' = Append(catalog, Preset(nextId, params["Name"]))
                      /\ nextId' = nextId + 1
                      /\ Crash("KeyError")
                      /\ UNCHANGED result
                 ELSE /\ fail_json("Invalid preset settings: ")
                      /\ UNCHANGED <<catalog, nextId, result>>
    /\ UNCHANGED <<module_params, check_mode, pageSize, PresetId, PresetArn,
                   params, catalog0, prev>>

\* lines 233-245: the create call (skipped in check mode) and the result.
create_preset_create ==
    /\ pc = "create"
    /\ IF check_mode
       THEN /\ exit_json([result EXCEPT !.msg = "Preset created successfully",
                                        !.changed = "true"])
            /\ UNCHANGED <<catalog, nextId, calls>>
       ELSE /\ calls' = Append(calls, [op |-> "create", arg |-> params])
            /\ \E ok \in BOOLEAN :
                 IF ok
                 THEN LET created == Preset(nextId, params["Name"])
                      IN  /\ catalog' = Append(catalog, created)
                          /\ nextId' = nextId + 1
                          /\ exit_json([result EXCEPT
                                           !.name = created.Name,
                                           !.id = created.Id,
                                           !.arn = created.Arn,
                                           !.msg = "Preset created successfully",
                                           !.changed = "true"])
                 ELSE /\ fail_json("Invalid preset settings: ")
                      /\ UNCHANGED <<catalog, nextId, result>>
    /\ UNCHANGED <<module_params, check_mode, pageSize, PresetId, PresetArn,
                   params, catalog0, prev>>

\* ------------------------------------------------------- delete_preset
\* lines 248-262: the name check and the lookup.
delete_preset_locate ==
    /\ pc = "delete_preset"
    /\ IF module_params.name = EmptyStr
       THEN /\ fail_json("Missing required argument: name")
            /\ UNCHANGED <<PresetId, PresetArn, params, calls>>
       ELSE LET found == get_preset_id(catalog, pageSize, module_params.name)
            IN  /\ params' = ("Name" :> module_params.name)
                /\ \E f \in 0..found.reads :
                      /\ Lookup(f, found)
                      /\ IF f = 0 THEN pc' = "absent_located" ELSE TRUE
    /\ UNCHANGED <<catalog, nextId, module_params, check_mode, pageSize,
                   result, catalog0, prev>>

\* delete_preset_apply with the test of line 278 inverted.
delete_preset_apply_inverted ==
    /\ pc = "absent_located"
    /\ LET r0 == [result EXCEPT !.msg = "Preset deleted successfully",
                                !.changed = "true"]
       IN  IF PresetId # None
           THEN LET r1 == [r0 EXCEPT !.id = PresetId, !.arn = PresetArn,
                                     !.name = module_params.name]
                IN  IF check_mode
                    THEN exit_json(r1) /\ UNCHANGED <<catalog, calls>>
                    ELSE /\ calls' = Append(calls, [op |-> "delete", arg |-> PresetId])
                         /\ \E ok \in BOOLEAN :
                              IF ok
                              THEN /\ catalog' = RemoveId(catalog, PresetId)
                                   /\ exit_json(r1)
                              ELSE /\ fail_json("Failed to delete preset")
                                   /\ UNCHANGED <<catalog, result>>
           ELSE /\ exit_json(IF ~ check_mode
                             THEN [r0 EXCEPT !.name = module_params.name]
                             ELSE [r0 EXCEPT !.msg = "Preset not found",
                                             !.changed = "false",
                                             !.name = module_params.name])
                /\ UNCHANGED <<catalog, calls>>
    /\ UNCHANGED <<nextId, module_params, check_mode, pageSize, PresetId,
                   PresetArn, params, catalog0, prev>>

\* delete_preset_apply removing every preset that carries the name.
delete_preset_apply_all_named ==
    /\ pc = "absent_located"
    /\ LET r0 == [result EXCEPT !.msg = "Preset deleted successfully",
                                !.changed = "true"]
       IN  IF PresetId # None
           THEN LET r1 == [r0 EXCEPT !.id = PresetId, !.arn = PresetArn,
                                     !.name = module_params.name]
                IN  IF check_mode
                    THEN exit_json(r1) /\ UNCHANGED <<catalog, calls>>
                    ELSE /\ calls' = Append(calls, [op |-> "delete", arg |-> PresetId])
                         /\ \E ok \in BOOLEAN :
                              IF ok
                              THEN /\ catalog' = SelectSeq(catalog,
                                          LAMBDA e : e.Name # module_params.name)
                                   /\ exit_json(r1)
                              ELSE /\ fail_json("Failed to delete preset")
                                   /\ UNCHANGED <<catalog, result>>
           ELSE /\ exit_json(IF check_mode
                             THEN [r0 EXCEPT !.name = module_params.name]
                             ELSE [r0 EXCEPT !.msg = "Preset not found",
                                             !.changed = "false",
                                             !.name = module_params.name])
                /\ UNCHANGED <<catalog, calls>>
    /\ UNCHANGED <<nextId, module_params, check_mode, pageSize, PresetId,
                   PresetArn, params, catalog0, prev>>

\* lines 264-284: delete the located preset, or report that there is none.
delete_preset_apply ==
    /\ pc = "absent_located"
    /\ LET r0 == [result EXCEPT !.msg = "Preset deleted successfully",
                                !.changed = "true"]
       IN  IF PresetId # None
           THEN LET r1 == [r0 EXCEPT !.id = PresetId, !.arn = PresetArn,
                                     !.name = module_params.name]
                IN  IF check_mode
                    THEN exit_json(r1) /\ UNCHANGED <<catalog, calls>>
                    ELSE /\ calls' = Append(calls, [op |-> "delete", arg |-> PresetId])
                         /\ \E ok \in BOOLEAN :
                              IF ok
                              THEN /\ catalog' = RemoveId(catalog, PresetId)
                                   /\ exit_json(r1)
                              ELSE /\ fail_json("Failed to delete preset")
                                   /\ UNCHANGED <<catalog, result>>
           ELSE /\ exit_json(IF check_mode
                             THEN [r0 EXCEPT !.name = module_params.name]
                             ELSE [r0 EXCEPT !.msg = "Preset not found",
                                             !.changed = "false",
                                             !.name = module_params.name])
                /\ UNCHANGED <<catalog, calls>>
    /\ UNCHANGED <<nextId, module_params, check_mode, pageSize, PresetId,
                   PresetArn, params, catalog0, prev>>

\* ------------------------------------------------------ specifications
Steps ==
    \/ create_preset_locate
    \/ create_preset_exists
    \/ create_preset_recreate
    \/ create_preset_build
    \/ create_preset_create
    \/ delete_preset_locate
    \/ delete_preset_apply

\* Single invocations, over every descriptor.
Next ==
    \/ main(Params)
    \/ Steps
    \/ process_exit(FALSE)

Spec == Init /\ [][Next]_vars

\* Successive invocations: each one remembers the one before it.
NextPair ==
    \/ main(PairParams)
    \/ Steps
    \/ process_exit(TRUE)

SpecPair == Init /\ [][NextPair]_vars

TypeOK ==
    /\ pc \in {"idle", "done", "create_preset", "located", "build", "create",
               "delete_preset", "absent_located"}
    /\ outcome \in {"none", "running", "success", "failed", "crashed"}
    /\ (pc = "idle") = (outcome = "none")
    /\ (pc = "done") = (outcome \in {"success", "failed", "crashed"})
    /\ nextId \in 1..(MaxId + 1)
    /\ \A i \in 1..Len(catalog) : catalog[i].Name \in CatalogNames

\* ------------------------------------------------------------ properties
Done == pc = "done"
Fatal == outcome \in {"failed", "crashed"}

\* The calls of a sequence with the given operation, in order.
CallsOf(cs, op) == SelectSeq(cs, LAMBDA c : c.op = op)
Creates(cs) == Len(CallsOf(cs, "create"))
Deletes(cs) == Len(CallsOf(cs, "delete"))

\* Positions of the presets with the given name.
NamedIn(cat, name) == {i \in 1..Len(cat) : cat[i].Name = name}

\* The result does not report a change: the module left the key out (the
\* framework then reports False) or set it to 'false'.
Unchanged(r) == r.changed \in {NoKey, "false"}

\* The messages of the exits caused by a rejected remote call.
RemoteRejected(msg) ==
    msg \in {"ClientError", "NameError: module", "Invalid preset settings: ",
             "Failed to delete preset"}

\* The invocation got past the name check and its listing was answered.
LookupDone == module_params.name # EmptyStr /\ fail_msg # "ClientError"

\* C1: a state=present invocation with recreate=false whose locator finds a
\* preset with the given name issues no create and no delete call, leaves
\* the catalog unchanged and returns success with the id and arn of a
\* catalog preset of that name, the given name, msg "Preset already exists"
\* and no change reported.
C1_ExistingPresetIsKept ==
    (/\ Done
     /\ module_params.state = "present"
     /\ ~ module_params.recreate
     /\ PresetId # None)
    => /\ Creates(calls) = 0
       /\ Deletes(calls) = 0
       /\ catalog = catalog0
       /\ outcome = "success"
       /\ \E i \in NamedIn(catalog0, module_params.name) :
             /\ result.id = catalog0[i].Id
             /\ result.arn = catalog0[i].Arn
       /\ result.name = module_params.name
       /\ result.msg = "Preset already exists"
       /\ Unchanged(result)

C1_Witness ==
    /\ Done
    /\ module_params.state = "present"
    /\ ~ module_params.recreate
    /\ PresetId # None
    /\ outcome = "success"
    /\ result.id = PresetId
    /\ Cardinality(NamedIn(catalog0, module_params.name)) = 2

\* A descriptor the documented contract accepts for creation: name and
\* container given, a readable document with at least one populated block.
ValidDescriptor(p) ==
    /\ p.name # EmptyStr
    /\ p.container # None
    /\ p.preset_document.file = "ok"
    /\ \E k \in DOMAIN p.preset_document.json :
          p.preset_document.json[k] # EmptyBlock

\* C2: starting from a catalog with no preset named n, two successive
\* state=present invocations with the same valid descriptor for n and
\* recreate=false (not check mode, no remote call rejected) issue exactly
\* one create call in total and no delete call; the second reports no change
\* and the id and arn the first returned.
C2_PresentTwiceCreatesOnce ==
    (/\ Done
     /\ prev.ran
     /\ module_params.state = "present"
     /\ ~ module_params.recreate
     /\ ~ check_mode
     /\ prev.module_params = module_params
     /\ ~ prev.check_mode
     /\ ValidDescriptor(module_params)
     /\ NamedIn(prev.catalog0, module_params.name) = {}
     /\ ~ RemoteRejected(fail_msg)
     /\ ~ RemoteRejected(prev.fail_msg))
    => /\ Creates(prev.calls) + Creates(calls) = 1
       /\ Deletes(prev.calls) + Deletes(calls) = 0
       /\ Unchanged(result)
       /\ result.id = prev.result.id
       /\ result.arn = prev.result.arn

\* C3: a state=present invocation with recreate=true against a catalog that
\* holds a preset with the given name performs exactly one delete call, on
\* the located id, followed by exactly one create call.  Stated for the
\* descriptors the contract accepts, outside check mode and with no remote
\* call rejected: the cases in which nothing excuses a missing create.
C3_RecreateDeletesThenCreates ==
    (/\ Done
     /\ module_params.state = "present"
     /\ module_params.recreate
     /\ PresetId # None
     /\ ValidDescriptor(module_params)
     /\ ~ check_mode
     /\ ~ RemoteRejected(fail_msg))
    => /\ Deletes(calls) = 1
       /\ Creates(calls) = 1
       /\ CallsOf(calls, "delete")[1].arg = PresetId
       /\ calls[Len(calls) - 1].op = "delete"
       /\ calls[Len(calls)].op = "create"

\* C4: a state=absent invocation outside check mode that finds a preset
\* named n issues one delete call, on the located id, and on success reports
\* changed with the id and arn of the deleted preset; two successive
\* completed state=absent invocations for n outside check mode, starting
\* from a catalog with at most one preset named n, issue at most one delete
\* call in total and the second reports no change.
C4_AbsentDeletesOnce ==
    /\ (/\ Done
        /\ module_params.state = "absent"
        /\ ~ check_mode
        /\ PresetId # None)
       => /\ Deletes(calls) = 1
          /\ Creates(calls) = 0
          /\ calls[Len(calls)] = [op |-> "delete", arg |-> PresetId]
          /\ \E i \in NamedIn(catalog0, module_params.name) : catalog0[i].Id = PresetId
          /\ outcome = "success"
             => /\ result.changed = "true"
                /\ result.id = PresetId
                /\ result.arn = PresetArn
                /\ \A i \in 1..Len(catalog) : catalog[i].Id # PresetId
    /\ (/\ Done
        /\ prev.ran
        /\ module_params.state = "absent"
        /\ prev.module_params.state = "absent"
        /\ prev.module_params.name = module_params.name
        /\ ~ check_mode
        /\ ~ prev.check_mode
        /\ outcome = "success"
        /\ prev.outcome = "success"
        /\ Cardinality(NamedIn(prev.catalog0, module_params.name)) <= 1)
       => /\ Deletes(prev.calls) + Deletes(calls) <= 1
          /\ Unchanged(result)

\* The second of two state=absent invocations, after the first deleted n.
C4_Witness ==
    /\ Done
    /\ prev.ran
    /\ module_params.state = "absent"
    /\ prev.module_params.state = "absent"
    /\ ~ check_mode
    /\ ~ prev.check_mode
    /\ outcome = "success"
    /\ prev.outcome = "success"
    /\ Cardinality(NamedIn(prev.catalog0, module_params.name)) = 1
    /\ Deletes(prev.calls) = 1
    /\ prev.result.changed = "true"
    /\ result.msg = "Preset not found"

\* C5: a state=absent invocation whose locator finds no preset with the
\* given name, in check mode or not, issues no mutating call and ends in
\* success with no change reported and the message "Preset not found".
C5_AbsentNotFoundReportsNoChange ==
    (/\ Done
     /\ module_params.state = "absent"
     /\ LookupDone
     /\ PresetId = None)
    => /\ Creates(calls) = 0
       /\ Deletes(calls) = 0
       /\ outcome = "success"
       /\ Unchanged(result)
       /\ result.msg = "Preset not found"

\* The invocation came to the code that prepares the create call: no match,
\* or a match that recreate deleted.
ReachedBuild ==
    /\ LookupDone
    /\ \/ PresetId = None
       \/ module_params.recreate /\ fail_msg # "NameError: module"

\* Some block of the document is populated.
Populated(doc) == \E k \in DOMAIN doc.json : doc.json[k] # EmptyBlock

\* C6: a state=present invocation that reaches creation with a document
\* whose blocks are all empty or missing, or with no document, ends in a
\* fatal error and has issued no create and no delete call, whatever the
\* catalog and the recreate flag (no remote call being rejected).
C6_EmptySpecsIssueNoCall ==
    (/\ Done
     /\ module_params.state = "present"
     /\ LookupDone
     /\ PresetId = None \/ module_params.recreate
     /\ module_params.container # None
     /\ module_params.preset_document.file \in {"none", "ok"}
     /\ ~ Populated(module_params.preset_document)
     /\ ~ RemoteRejected(fail_msg))
    => /\ Fatal
       /\ Creates(calls) = 0
       /\ Deletes(calls) = 0

\* C7: in a state=present invocation that reaches creation (container given,
\* not check mode) a missing block counts as empty, and the create call is
\* issued exactly when at least one block is populated; it then carries
\* exactly the blocks of the document.
C7_CreateIffSomeBlockPopulated ==
    (/\ Done
     /\ module_params.state = "present"
     /\ ReachedBuild
     /\ module_params.container # None
     /\ module_params.preset_document.file \in {"none", "ok"}
     /\ ~ check_mode)
    => LET doc == module_params.preset_document
       IN  IF Populated(doc)
           THEN /\ Creates(calls) = 1
                /\ LET sent == CallsOf(calls, "create")[1].arg
                   IN  /\ DOMAIN sent \cap BlockKeys = DOMAIN doc.json
                       /\ \A k \in DOMAIN doc.json : sent[k] = doc.json[k]
           ELSE Creates(calls) = 0

\* The ids and arns of a catalog.
IdsOf(cat) == {cat[i].Id : i \in 1..Len(cat)}
ArnsOf(cat) == {cat[i].Arn : i \in 1..Len(cat)}

\* C8: in check mode no invocation issues a create or delete call, the
\* catalog after it equals the catalog before it, and a state=present result
\* carries no id or arn that is not a catalog preset's.
C8_CheckModeMutatesNothing ==
    (Done /\ check_mode /\ ~ RemoteRejected(fail_msg))
    => /\ Creates(calls) = 0
       /\ Deletes(calls) = 0
       /\ catalog = catalog0
       /\ (module_params.state = "present" /\ outcome = "success")
          => /\ result.id \in {EmptyStr} \cup IdsOf(catalog0)
             /\ result.arn \in {EmptyStr} \cup ArnsOf(catalog0)

\* C9: a state=present invocation whose name or container is missing ends
\* in a fatal error before any mutating call, whatever the catalog and the
\* recreate flag: it never ends in success and never deletes a preset.  (The
\* claim also places the failure before the catalog lookup.)
C9_MissingNameOrContainerFailsFirst ==
    (/\ Done
     /\ module_params.state = "present"
     /\ module_params.name = EmptyStr \/ module_params.container = None
     /\ ~ RemoteRejected(fail_msg))
    => /\ Fatal
       /\ Creates(calls) = 0
       /\ Deletes(calls) = 0
       /\ catalog = catalog0

\* C10 as stated: an invocation that ends in a fatal error has left the
\* catalog exactly as it was when it started.
C10_FatalLeavesCatalogAsItWas ==
    (Done /\ Fatal) => catalog = catalog0

\* The delete of recreate was issued and accepted.
RecreateDeleted ==
    /\ module_params.state = "present"
    /\ module_params.recreate
    /\ PresetId # None
    /\ fail_msg # "NameError: module"

\* C10 amended: an invocation that ends in a fatal error has left the
\* catalog exactly as it was, unless it is a state=present invocation with
\* recreate=true whose delete of the located preset was accepted: then the
\* catalog is the one it started with less that preset, and no preset was
\* added.
C10_FatalUndoesNothingOfRecreate ==
    (Done /\ Fatal)
    => IF RecreateDeleted
       THEN /\ catalog = RemoveId(catalog0, PresetId)
            /\ catalog # catalog0
       ELSE catalog = catalog0

\* A recreate whose delete was accepted and whose create was rejected.
C10_Witness ==
    /\ Done
    /\ Fatal
    /\ fail_msg = "Invalid preset settings: "
    /\ Deletes(calls) = 1
    /\ Creates(calls) = 1
    /\ Len(catalog) = Len(catalog0) - 1

\* The operations of the mutating calls of a sequence, in order.
MutatingOps(cs) ==
    LET ms == SelectSeq(cs, LAMBDA c : c.op # "list")
    IN  [i \in 1..Len(ms) |-> ms[i].op]

\* C11: at every point of an invocation the remote calls issued so far are
\* list-page reads followed by no mutating call, one create, one delete, or
\* one delete then one create (only for state=present with recreate=true);
\* no read follows a mutating call, state=absent issues no create and
\* state=present with recreate=false issues no delete.
C11_ReadsThenAtMostDeleteCreate ==
    /\ \A i \in 1..(Len(calls) - 1) :
          calls[i].op # "list" => calls[i + 1].op # "list"
    /\ MutatingOps(calls) \in {<<>>, <<"create">>, <<"delete">>, <<"delete", "create">>}
    /\ MutatingOps(calls) = <<"delete", "create">>
       => module_params.state = "present" /\ module_params.recreate
    /\ module_params.state = "absent" => Creates(calls) = 0
    /\ (module_params.state = "present" /\ ~ module_params.recreate)
       => Deletes(calls) = 0

\* A recreate that read two pages, deleted and created.
C11_Witness ==
    /\ Done
    /\ Len(CallsOf(calls, "list")) = 2
    /\ MutatingOps(calls) = <<"delete", "create">>
    /\ outcome = "success"

\* The first position, in listing order, of a preset with the given name.
FirstNamed(cat, name) ==
    CHOOSE i \in NamedIn(cat, name) : \A j \in NamedIn(cat, name) : i <= j

\* C12: whatever the page size, get_preset_id returns the id and arn of the
\* first entry, in page order and then entry order, whose name is exactly
\* the given name; it returns (None, None) exactly when no entry has that
\* name; and up to its return only list calls were issued and the catalog is
\* untouched.
C12_LocatorReturnsFirstExactMatch ==
    pc \in {"located", "absent_located"}
    => LET named == NamedIn(catalog, module_params.name)
       IN  /\ (PresetId = None) = (named = {})
           /\ (PresetArn = None) = (named = {})
           /\ named # {}
              => /\ PresetId = catalog[FirstNamed(catalog, module_params.name)].Id
                 /\ PresetArn = catalog[FirstNamed(catalog, module_params.name)].Arn
           /\ MutatingOps(calls) = <<>>
           /\ Len(calls) = Len(CallsOf(calls, "list"))
           /\ catalog = catalog0

\* The match is on the second page, behind a name that differs only in case.
C12_Witness ==
    /\ pc \in {"located", "absent_located"}
    /\ pageSize = 1
    /\ Len(catalog) >= 2
    /\ catalog[1].Name = "N"
    /\ module_params.name = "n"
    /\ PresetId = catalog[2].Id
    /\ Len(calls) = 2

\* The number of presets with the given name.
CountNamed(cat, name) == Cardinality(NamedIn(cat, name))

\* C13: an invocation for n (present with or without recreate, absent,
\* check mode or not, succeeding or failing) that starts from a catalog with
\* at most one preset named n never has more than one in the catalog, and
\* the next invocation starts from the catalog this one left; hence a
\* catalog that starts with at most one keeps at most one through any
\* sequence of non-overlapping invocations.
C13_NameStaysUnique ==
    /\ pc = "idle" => catalog0 = catalog
    /\ CountNamed(catalog0, "n") <= 1 => CountNamed(catalog, "n") <= 1

\* Two invocations on an empty catalog: a create, then a recreate that
\* replaced the created preset by a new one.
C13_Witness ==
    /\ Done
    /\ module_params.state = "present"
    /\ module_params.recreate
    /\ outcome = "success"
    /\ catalog0 = <<Preset(1, "n")>>
    /\ catalog = <<Preset(2, "n")>>
    /\ nextId = 3

\* C14: in a state=present invocation with recreate=true against an
\* existing preset the delete has completed when the create is attempted,
\* and nothing is rolled back: when the create call is then rejected the
\* invocation ends in a fatal error and the catalog holds neither the
\* deleted preset nor a new one.
C14_RejectedCreateLeavesPresetDeleted ==
    /\ (/\ pc = "create"
        /\ module_params.recreate
        /\ PresetId # None)
       => /\ MutatingOps(calls) = <<"delete">>
          /\ calls[Len(calls)].arg = PresetId
          /\ PresetId \notin IdsOf(catalog)
    /\ (/\ Done
        /\ module_params.state = "present"
        /\ module_params.recreate
        /\ PresetId # None
        /\ fail_msg = "Invalid preset settings: ")
       => /\ Fatal
          /\ MutatingOps(calls) = <<"delete", "create">>
          /\ PresetId \in IdsOf(catalog0)
          /\ PresetId \notin IdsOf(catalog)
          /\ IdsOf(catalog) = IdsOf(catalog0) \ {PresetId}
          /\ Len(catalog) = Len(catalog0) - 1

\* The only preset named n was deleted and the create was rejected: the
\* name is gone from the catalog.
C14_Witness ==
    /\ Done
    /\ module_params.recreate
    /\ outcome = "failed"
    /\ fail_msg = "Invalid preset settings: "
    /\ CountNamed(catalog0, "n") = 1
    /\ CountNamed(catalog, "n") = 0
    /\ MutatingOps(calls) = <<"delete", "create">>

\* A catalog less its i-th entry.
Without(cat, i) == SubSeq(cat, 1, i - 1) \o SubSeq(cat, i + 1, Len(cat))

\* A delete of the tool was just accepted: the delete step of recreate
\* (before anything is created), or a successful state=absent invocation
\* that issued its delete.
DeleteAccepted ==
    \/ pc = "build"
    \/ /\ Done
       /\ module_params.state = "absent"
       /\ outcome = "success"
       /\ Deletes(calls) = 1

\* C15: a delete issued by the tool removes exactly one catalog entry, the
\* one whose id the locator returned (the first of that name), and leaves
\* every other entry as it was, other presets of the same name included:
\* of k presets named n, k - 1 remain.
C15_DeleteRemovesOnlyTheLocatedEntry ==
    DeleteAccepted
    => /\ NamedIn(catalog0, module_params.name) # {}
       /\ LET i == FirstNamed(catalog0, module_params.name)
          IN  /\ catalog0[i].Id = PresetId
              /\ catalog = Without(catalog0, i)
       /\ CountNamed(catalog, module_params.name)
             = CountNamed(catalog0, module_params.name) - 1

\* Two presets named n, one successful state=absent invocation: one is left.
C15_Witness ==
    /\ Done
    /\ module_params.state = "absent"
    /\ outcome = "success"
    /\ Deletes(calls) = 1
    /\ CountNamed(catalog0, "n") = 2
    /\ CountNamed(catalog, "n") = 1

====
